---------------------------- MODULE Spec2Model ----------------------------
(***************************************************************************)
(* A model of converter.py: the conversion of the rows of a tab-separated  *)
(* clinical table into FHIR transaction bundles.                           *)
(*                                                                         *)
(* Text that the program inspects or converts character by character (the  *)
(* input lines and their fields) is a sequence of one-character strings,   *)
(* so that split, lower and float are computed as Python computes them.    *)
(* Text that the program only formats (identifiers, URLs, file names) is a *)
(* TLA+ string; Str turns the former into the latter.                      *)
(***************************************************************************)
EXTENDS Integers, Sequences, FiniteSets, TLC

(***************************************************************************)
(* Bounds of the model.                                                    *)
(***************************************************************************)
\* the largest number of data rows (lines after the header) in the input
MaxRows == 2

(***************************************************************************)
(* Python values.                                                          *)
(***************************************************************************)
\* Python's None, where a string may stand as well
PyNone == "<None>"

\* Python's None, where an object may stand as well
NoObject == <<>>

\* a name that has not been bound yet
Unbound == "<unbound>"

\* the element of a set of one element
The(S) == CHOOSE v \in S : TRUE

RECURSIVE Str(_)
\* the text of a sequence of characters
Str(s) == IF s = <<>> THEN "" ELSE s[1] \o Str(Tail(s))

UpperCase == <<"A","B","C","D","E","F","G","H","I","J","K","L","M",
               "N","O","P","Q","R","S","T","U","V","W","X","Y","Z">>

LowerCase == <<"a","b","c","d","e","f","g","h","i","j","k","l","m",
               "n","o","p","q","r","s","t","u","v","w","x","y","z">>

\* str.lower() of one character
LowerChar(c) ==
    IF \E k \in 1..Len(UpperCase) : UpperCase[k] = c
    THEN LowerCase[CHOOSE k \in 1..Len(UpperCase) : UpperCase[k] = c]
    ELSE c

\* str.lower()
Lower(s) == [k \in 1..Len(s) |-> LowerChar(s[k])]

RECURSIVE Split(_)
\* line.split("\t"): the texts between the tabs, so that a newline that ends
\* the line stays in the last field and an empty line has one empty field.
\* The fields of a line are those of its two halves, the last of the first
\* half and the first of the second being one field
Split(line) ==
    IF Len(line) = 0 THEN << <<>> >>
    ELSE IF Len(line) = 1
    THEN (IF line[1] = "\t" THEN << <<>>, <<>> >> ELSE << line >>)
    ELSE LET half == Len(line) \div 2
             left == Split(SubSeq(line, 1, half))
             right == Split(SubSeq(line, half + 1, Len(line)))
         IN  SubSeq(left, 1, Len(left) - 1)
             \o << left[Len(left)] \o right[1] >>
             \o Tail(right)

(***************************************************************************)
(* The input: the lines of the data file and the command line.             *)
(***************************************************************************)
\* the number of columns of the table (the last column read is column 50)
NumColumns == 51

\* the text of a column that the program never reads
Filler == <<"x">>

\* the fields of a data row: n columns, the seven columns that the program
\* reads holding the values given
RowFields(n, key, age, icd, living, secondary, radio, gender) ==
    [c \in 1..n |->
        CASE c - 1 = 1  -> key
          [] c - 1 = 3  -> age
          [] c - 1 = 24 -> icd
          [] c - 1 = 35 -> living
          [] c - 1 = 36 -> secondary
          [] c - 1 = 46 -> radio
          [] c - 1 = 50 -> gender
          [] OTHER      -> Filler]

RECURSIVE JoinTabs(_)
\* the fields joined by tabs
JoinTabs(fields) ==
    IF Len(fields) = 0 THEN <<>>
    ELSE IF Len(fields) = 1 THEN fields[1]
    ELSE fields[1] \o <<"\t">> \o JoinTabs(Tail(fields))

\* a line of the file, as readlines returns it: the newline included
MkLine(fields) == JoinTabs(fields) \o <<"\n">>

KeyA == <<"P","-","1">>
KeyB == <<"P","-","2">>
SubjectKeys == {KeyA, KeyB}

\* the secondary patient id of a subject
SecondaryOf(key) ==
    IF key = KeyA THEN <<"T","C","G","A","-","A","B","C">>
    ELSE <<"t","c","g","a","-","X","y","9">>

Age635 == <<"6","3",".","5">>
Age70 == <<"7","0">>
Age0650 == <<"0","6",".","5","0">>
AgeNA == <<"N","A">>
AgeEmpty == <<>>
AgeWord == <<"6","3",",","5">>
OnsetAges == {Age635, Age70, Age0650, AgeNA, AgeEmpty, AgeWord}

Living == <<"0",":","L","I","V","I","N","G">>
Deceased == <<"1",":","D","E","C","E","A","S","E","D">>
LivingLower == <<"0",":","l","i","v","i","n","g">>
LivingStates == {Living, Deceased, LivingLower}

Yes == <<"Y","e","s">>
RadioFlags == {Yes, <<"y","e","s">>, <<"N","O">>, <<>>}

IcdKnown == <<"C","2","5",".","0">>
IcdUnknown == <<"Z","9","9",".","9">>

Male == <<"M","a","l","e">>
Female == <<"F","e","m","a","l","e">>

\* complete rows: every subject with every treatment flag
CompleteRows ==
    { RowFields(NumColumns, key, Age635, IcdKnown, Living, SecondaryOf(key),
                radio, Male) :
        key \in SubjectKeys, radio \in RadioFlags }

\* complete rows that differ in the onset age, the living status or the code
VariedRows ==
    { RowFields(NumColumns, KeyA, age, IcdUnknown, Living, SecondaryOf(KeyA),
                Yes, Female) : age \in OnsetAges }
    \cup
    { RowFields(NumColumns, KeyB, Age70, IcdKnown, living, SecondaryOf(KeyB),
                <<>>, Female) : living \in LivingStates }

\* rows with too few columns: an empty line, and rows cut before and after
\* the treatment flag
ShortRows ==
    { <<>> } \cup
    { RowFields(n, KeyA, Age635, IcdKnown, Living, SecondaryOf(KeyA), Yes, Male) :
        n \in {30, 50} }

SampleLines == { MkLine(r) : r \in CompleteRows \cup VariedRows \cup ShortRows }

\* the first line of the file, which names the columns
HeaderLine == MkLine([c \in 1..NumColumns |-> <<"h">>])

\* what may follow the program's name on the command line
CommandLines ==
    { <<>>,
      <<"--research-study-id", "">>,
      <<"--research-study-id", "rs-1">> }

(***************************************************************************)
(* The state of a run.                                                     *)
(***************************************************************************)
VARIABLES
    argv,                   \* the command line
    lines,                  \* the lines read from the data file
    pc,                     \* where the run is: "start", "loop", "exit", "end", "raised"
    idx,                    \* the position in lines of the next line of the loop
    research_study_id,      \* the global of that name
    patients_uuid,          \* the four registries: subject key -> identifier
    research_subject_uuid,
    condition_uuid,
    procedure_uuid,
    uuid_count,             \* how many identifiers uuid4 has handed out
    files,                  \* the directory bundles: file name -> what was written
    stdout,                 \* the names printed, in order
    calls,                  \* history: the positions in lines create_bundle was called for
    rows,                   \* history: the rows (the split lines) it was called for
    returned,               \* history: what each call of create_bundle returned or raised
    events                  \* history: the builder calls and registry accesses of the last call

vars == <<argv, lines, pc, idx, research_study_id, patients_uuid,
          research_subject_uuid, condition_uuid, procedure_uuid, uuid_count,
          files, stdout, calls, rows, returned, events>>

(***************************************************************************)
(* Library functions the program calls.                                    *)
(***************************************************************************)
Digits == <<"0","1","2","3","4","5","6","7","8","9">>

IsDigit(c) == \E d \in 1..Len(Digits) : Digits[d] = c

DigitValue(c) == (CHOOSE d \in 1..Len(Digits) : Digits[d] = c) - 1

RECURSIVE NatOf(_)
\* the number a sequence of digits writes
NatOf(ds) ==
    IF ds = <<>> THEN 0
    ELSE 10 * NatOf(SubSeq(ds, 1, Len(ds) - 1)) + DigitValue(ds[Len(ds)])

IsSpace(c) == c \in {" ", "\t", "\n", "\r"}

RECURSIVE Strip(_)
\* str.strip()
Strip(s) ==
    IF s = <<>> THEN s
    ELSE IF IsSpace(s[1]) THEN Strip(Tail(s))
    ELSE IF IsSpace(s[Len(s)]) THEN Strip(SubSeq(s, 1, Len(s) - 1))
    ELSE s

RECURSIVE DropZeros(_)
\* a sequence of digits without the zeros that end it
DropZeros(ds) ==
    IF ds # <<>> /\ ds[Len(ds)] = "0" THEN DropZeros(SubSeq(ds, 1, Len(ds) - 1))
    ELSE ds

\* how float reads a text: blanks around the number are dropped, then an
\* optional sign, digits and at most one point, with a digit at least, make
\* a number.  (Exponents, underscores and the words inf and nan, which float
\* also takes, are in none of the inputs.)
Decimal(s) ==
    LET t == Strip(s)
        signed == t # <<>> /\ t[1] \in {"+", "-"}
        body == IF signed THEN Tail(t) ELSE t
        points == { k \in 1..Len(body) : body[k] = "." }
        point == IF points = {} THEN Len(body) + 1 ELSE CHOOSE k \in points : TRUE
    IN  [wellFormed |->
            /\ Cardinality(points) <= 1
            /\ \A k \in 1..Len(body) : k \in points \/ IsDigit(body[k])
            /\ \E k \in 1..Len(body) : IsDigit(body[k]),
         negative |-> signed /\ t[1] = "-",
         whole |-> SubSeq(body, 1, point - 1),
         fraction |-> DropZeros(SubSeq(body, point + 1, Len(body)))]

\* the number mant / 10^exp
Number(negative, mant, exp) ==
    [mant |-> IF negative THEN 0 - mant ELSE mant, exp |-> exp]

\* float as a program would have it that takes 0 for a text that writes no number
float_or_zero(s) ==
    LET d == Decimal(s)
    IN  IF d.wellFormed
        THEN [exc |-> "",
              value |-> Number(d.negative, NatOf(d.whole \o d.fraction), Len(d.fraction))]
        ELSE [exc |-> "", value |-> Number(FALSE, 0, 0)]

\* float as a program would have it that keeps the whole part alone
float_truncated(s) ==
    LET d == Decimal(s)
    IN  IF d.wellFormed
        THEN [exc |-> "", value |-> Number(d.negative, NatOf(d.whole), 0)]
        ELSE [exc |-> "ValueError", value |-> PyNone]

\* float(s): the number that the text writes, or ValueError.  The number is
\* kept exactly, as mant / 10^exp with no zero ending the fraction, so that
\* equal numbers are equal values
float(s) ==
    LET d == Decimal(s)
    IN  IF d.wellFormed
        THEN [exc |-> "",
              value |-> Number(d.negative, NatOf(d.whole \o d.fraction), Len(d.fraction))]
        ELSE [exc |-> "ValueError", value |-> PyNone]

(***************************************************************************)
(* The globals of the module, threaded through the functions: g holds the  *)
(* four registries, research_study_id, the count of identifiers handed     *)
(* out, and the history of the call under way.  A function returns exc     *)
(* (the exception raised, or ""), the globals as it leaves them, and ret.  *)
(* A function that works on the globals takes them as globals and names    *)
(* their value g, so that what the caller passes is evaluated once.        *)
(***************************************************************************)
DATA_PATH == "data/paad_tcga_pan_can_atlas_2018_clinical_data.tsv"
PATIENT_ID_SYSTEM == "https://www.gmds.de/pk-nachwuchs/patient"
STUDY_PATIENT_ID_SYSTEM == "https://www.cbioportal.org/patient"
STUDY_ID_SYSTEM == "https://www.cbioportal.org/study"
STUDY_ID_VALUE == "paad_tcga_pan_can_atlas_2018"

Registries ==
    {"patients_uuid", "research_subject_uuid", "condition_uuid", "procedure_uuid"}

Raise(g, e) == [exc |-> e, g |-> g, ret |-> PyNone]

Return(g, v) == [exc |-> "", g |-> g, ret |-> v]

\* the history records that a builder was entered
Called(g, name) ==
    [g EXCEPT !.events = Append(@, [op |-> "call", name |-> name])]

\* str(uuid.uuid4()): an identifier no earlier call has returned
uuid4(g) ==
    [value |-> "uuid-" \o ToString(g.uuid_count + 1),
     g |-> [g EXCEPT !.uuid_count = @ + 1]]

\* reg[key] = value
SetItem(g, reg, key, value) ==
    [g EXCEPT ![reg] = (key :> value) @@ @,
              !.events = Append(@, [op |-> "write", reg |-> reg, key |-> key,
                                    value |-> value])]

\* reg[key]: the value stored, or KeyError
GetItem(g, reg, key) ==
    IF key \in DOMAIN g[reg]
    THEN [exc |-> "", value |-> g[reg][key],
          g |-> [g EXCEPT !.events = Append(@, [op |-> "read", reg |-> reg,
                                                key |-> key, value |-> g[reg][key]])]]
    ELSE [exc |-> "KeyError", value |-> PyNone, g |-> g]

(***************************************************************************)
(* The builders.                                                           *)
(***************************************************************************)
\* create_research_study(): the study, its id the global research_study_id
create_research_study(g) ==
    LET identifier == [system |-> STUDY_ID_SYSTEM,
                       value |-> "paad_tcga_pan_can_atlas_2018"]
        research_study ==
            [resourceType |-> "ResearchStudy",
             status |-> "active",
             identifier |-> <<identifier>>,
             name |-> "tcga_pancreatic_adenocarcinoma",
             title |-> "Pancreatic Adenocarcinoma (TCGA, PanCancer Atlas)",
             version |-> "1.0.0",
             id |-> g.research_study_id,
             progressStatus |->
                 <<[state |-> [coding |->
                     <<[system |-> "http://hl7.org/fhir/research-study-status",
                        code |-> "completed",
                        display |-> "Completed"]>>]]>>]
    IN  Return(Called(g, "create_research_study"), research_study)

\* create_patient as a program would have it that keeps the identifier of a
\* subject it has met before
create_patient_dedup(globals, study_subject_id, patient_id, gender, living_status) ==
    The({
        LET pat_identifier == [system |-> PATIENT_ID_SYSTEM,
                               value |-> Str(Lower(patient_id))]
            g0 == Called(g, "create_patient")
            new == uuid4(g0)
            g1 == IF study_subject_id \in DOMAIN g0.patients_uuid THEN g0
                  ELSE SetItem(new.g, "patients_uuid", study_subject_id, new.value)
            own == GetItem(g1, "patients_uuid", study_subject_id)
            pat == [resourceType |-> "Patient",
                    identifier |-> <<pat_identifier>>,
                    gender |-> Str(Lower(gender)),
                    deceasedBoolean |-> living_status,
                    id |-> own.value]
        IN  IF own.exc # "" THEN Raise(own.g, own.exc) ELSE Return(own.g, pat)
        : g \in {globals} })

create_patient(globals, study_subject_id, patient_id, gender, living_status) ==
    The({
        LET pat_identifier == [system |-> PATIENT_ID_SYSTEM,
                               value |-> Str(Lower(patient_id))]
            g0 == Called(g, "create_patient")
            new == uuid4(g0)
            g1 == SetItem(new.g, "patients_uuid", study_subject_id, new.value)
            own == GetItem(g1, "patients_uuid", study_subject_id)
            pat == [resourceType |-> "Patient",
                    identifier |-> <<pat_identifier>>,
                    gender |-> Str(Lower(gender)),
                    deceasedBoolean |-> living_status,
                    id |-> own.value]
        IN  IF own.exc # "" THEN Raise(own.g, own.exc) ELSE Return(own.g, pat)
        : g \in {globals} })

create_research_subject(globals, study_patient_id) ==
    The({
        LET g0 == Called(g, "create_research_subject")
            patient == GetItem(g0, "patients_uuid", study_patient_id)
            pat_ref == [reference |-> "Patient/" \o patient.value]
            study_ref == [reference |-> "ResearchStudy/" \o g.research_study_id]
            new == uuid4(patient.g)
            g1 == SetItem(new.g, "research_subject_uuid", study_patient_id, new.value)
            pat_identifier == [system |-> STUDY_PATIENT_ID_SYSTEM,
                               value |-> Str(study_patient_id)]
            own == GetItem(g1, "research_subject_uuid", study_patient_id)
            research_sub == [resourceType |-> "ResearchSubject",
                             status |-> "active",
                             subject |-> pat_ref,
                             study |-> study_ref,
                             identifier |-> <<pat_identifier>>,
                             id |-> own.value]
        IN  IF patient.exc # "" THEN Raise(patient.g, patient.exc)
            ELSE IF own.exc # "" THEN Raise(own.g, own.exc)
            ELSE Return(own.g, research_sub)
        : g \in {globals} })

\* get_label(icd_10_code): no case matches any other code, and the function
\* returns None
get_label(icd_10_code) ==
    LET code == Str(icd_10_code)
    IN  CASE code = "C25.0" -> "Bösartige Neubildung: Pankreaskopf"
          [] code = "C25.1" -> "Bösartige Neubildung: Pankreaskörper"
          [] code = "C25.2" -> "Bösartige Neubildung: Pankreasschwanz"
          [] code = "C25.3" -> "Bösartige Neubildung: Ductus pancreaticus"
          [] code = "C25.4" -> "Bösartige Neubildung: Endokriner Drüsenanteil des Pankreas"
          [] code = "C25.7" -> "Bösartige Neubildung: Sonstige Teile des Pankreas"
          [] code = "C25.8" -> "Bösartige Neubildung: Pankreas, mehrere Teilbereiche überlappend"
          [] code = "C25.9" -> "Bösartige Neubildung: Pankreas, nicht näher bezeichnet"
          [] OTHER -> PyNone

create_condition(globals, study_subject_id, icd_code, onset_age) ==
    The({
        LET g0 == Called(g, "create_condition")
            number == float(onset_age)
            age == [value |-> number.value, unit |-> "a"]
            patient == GetItem(g0, "patients_uuid", study_subject_id)
            new == uuid4(patient.g)
            g1 == SetItem(new.g, "condition_uuid", study_subject_id, new.value)
            own == GetItem(g1, "condition_uuid", study_subject_id)
            condition ==
                [resourceType |-> "Condition",
                 clinicalStatus |-> [coding |->
                     <<[system |-> "http://terminology.hl7.org/CodeSystem/condition-clinical",
                        display |-> "Active",
                        code |-> "active"]>>],
                 subject |-> [reference |-> "Patient/" \o patient.value],
                 onsetAge |-> age,
                 id |-> own.value,
                 code |-> [coding |->
                     <<[system |-> "http://fhir.de/CodeSystem/bfarm/icd-10-gm",
                        code |-> Str(icd_code),
                        display |-> get_label(icd_code)]>>]]
        IN  IF number.exc # "" THEN Raise(g0, number.exc)
            ELSE IF patient.exc # "" THEN Raise(patient.g, patient.exc)
            ELSE IF own.exc # "" THEN Raise(own.g, own.exc)
            ELSE Return(own.g, condition)
        : g \in {globals} })

create_procedure(globals, study_subject_id) ==
    The({
        LET g0 == Called(g, "create_procedure")
            patient == GetItem(g0, "patients_uuid", study_subject_id)
            new == uuid4(patient.g)
            g1 == SetItem(new.g, "procedure_uuid", study_subject_id, new.value)
            own == GetItem(g1, "procedure_uuid", study_subject_id)
            procedure ==
                [resourceType |-> "Procedure",
                 status |-> "completed",
                 subject |-> [reference |-> "Patient/" \o patient.value],
                 id |-> own.value,
                 code |-> [coding |->
                     <<[system |-> "http://snomed.info/sct",
                        code |-> "1287742003",
                        display |-> "Radiotherapy (procedure)"]>>]]
        IN  IF patient.exc # "" THEN Raise(patient.g, patient.exc)
            ELSE IF own.exc # "" THEN Raise(own.g, own.exc)
            ELSE Return(own.g, procedure)
        : g \in {globals} })

(***************************************************************************)
(* create_bundle.                                                          *)
(***************************************************************************)
\* data_values[c], the columns counted from 0 as Python counts them
Item(data_values, c) == data_values[c + 1]

\* the columns that create_bundle reads
ColumnsRead == {1, 3, 24, 35, 36, 46, 50}

\* is_alive as a program would have it that compares without regard to case
is_alive_anycase(data_values) == Str(Lower(Item(data_values, 35))) = "0:living"

\* is_alive = True if data_values[35] == "0:LIVING" else False
is_alive(data_values) == Str(Item(data_values, 35)) = "0:LIVING"

\* radio_therapy as a program would have it that compares without regard to case
radio_therapy_anycase(data_values) == Str(Lower(Item(data_values, 46))) = "yes"

\* radio_therapy = True if data_values[46] == "Yes" else False
radio_therapy(data_values) == Str(Item(data_values, 46)) = "Yes"

pat_entry_request(secondary_pat_id) ==
    [url |-> "Patient", method |-> "POST",
     ifNoneExist |-> "identifier=" \o PATIENT_ID_SYSTEM \o "|"
                     \o Str(Lower(secondary_pat_id))]

\* built by create_bundle and put into no entry
research_study_request ==
    [url |-> "ResearchStudy", method |-> "POST",
     ifNoneExist |-> "identifier=" \o STUDY_ID_SYSTEM \o "|" \o STUDY_ID_VALUE]

research_subject_request(study_subject_id) ==
    [url |-> "ResearchSubject", method |-> "POST",
     ifNoneExist |-> "identifier=" \o STUDY_PATIENT_ID_SYSTEM \o "|"
                     \o Str(study_subject_id)]

\* an entry whose fullUrl is kind/reg[study_subject_id]
Entry(globals, resource, request, kind, reg, study_subject_id) ==
    The({
        LET own == GetItem(g, reg, study_subject_id)
        IN  IF own.exc # "" THEN Raise(own.g, own.exc)
            ELSE Return(own.g, [resource |-> resource,
                                request |-> request,
                                fullUrl |-> kind \o "/" \o own.value])
        : g \in {globals} })

\* pat_entry as a program would have it that takes the identifier from the
\* registry of the research subjects
pat_entry_of_subject(g, pat, request, study_subject_id) ==
    Entry(g, pat, request, "Patient", "research_subject_uuid", study_subject_id)

pat_entry(g, pat, request, study_subject_id) ==
    Entry(g, pat, request, "Patient", "patients_uuid", study_subject_id)

research_subject_entry(g, research_subject, request, study_subject_id) ==
    Entry(g, research_subject, request, "ResearchSubject", "research_subject_uuid",
          study_subject_id)

\* condition_entry as a program would have it that takes the identifier
\* from the registry of the procedures
condition_entry_of_procedure(g, condition, study_subject_id) ==
    Entry(g, condition, [url |-> "Condition", method |-> "POST"],
          "Condition", "procedure_uuid", study_subject_id)

condition_entry(g, condition, study_subject_id) ==
    Entry(g, condition, [url |-> "Condition", method |-> "POST"],
          "Condition", "condition_uuid", study_subject_id)

\* the entry of the procedure, or None without radio therapy
procedure_entry(g, flagged, study_subject_id) ==
    IF ~flagged THEN Return(g, NoObject)
    ELSE The({
        IF procedure.exc # "" THEN procedure
        ELSE Entry(procedure.g, procedure.ret,
                   [url |-> "Procedure", method |-> "POST"],
                   "Procedure", "procedure_uuid", study_subject_id)
        : procedure \in {create_procedure(g, study_subject_id)} })

\* K(r) for the result r of a call that returned, and r itself when the
\* call raised: the exception passes through the statements that follow
Bind(result, K(_)) ==
    The({ IF r.exc # "" THEN r ELSE K(r) : r \in {result} })

create_bundle(g, data_values) ==
    IF \E c \in ColumnsRead : c >= Len(data_values) THEN Raise(g, "IndexError")
    ELSE
    LET study_subject_id == Item(data_values, 1)
        onset_age == Item(data_values, 3)
        icd_10_code == Item(data_values, 24)
        secondary_pat_id == Item(data_values, 36)
        gender == Item(data_values, 50)
    IN
    Bind(create_patient(g, study_subject_id, secondary_pat_id, gender,
                        is_alive(data_values)),
         LAMBDA pat :
    Bind(create_research_subject(pat.g, study_subject_id),
         LAMBDA research_subject :
    Bind(create_condition(research_subject.g, study_subject_id, icd_10_code,
                          onset_age),
         LAMBDA condition :
    Bind(procedure_entry(condition.g, radio_therapy(data_values), study_subject_id),
         LAMBDA procedure :
    Bind(pat_entry(procedure.g, pat.ret, pat_entry_request(secondary_pat_id),
                   study_subject_id),
         LAMBDA e1 :
    Bind(research_subject_entry(e1.g, research_subject.ret,
                                research_subject_request(study_subject_id),
                                study_subject_id),
         LAMBDA e2 :
    Bind(condition_entry(e2.g, condition.ret, study_subject_id),
         LAMBDA e3 :
        LET entry == <<e1.ret, e2.ret, e3.ret>>
                     \o (IF procedure.ret # NoObject THEN <<procedure.ret>> ELSE <<>>)
            transaction_bundle ==
                [resourceType |-> "Bundle", type |-> "transaction", entry |-> entry]
        IN  Return(e3.g, <<transaction_bundle, study_subject_id>>))))))))

(***************************************************************************)
(* The main program.                                                       *)
(***************************************************************************)
\* parser.parse_args(): the option's value, None without the option
parse_args(command) ==
    [research_study_id |-> IF command = <<>> THEN PyNone ELSE command[2]]

\* the truth value as a program would have it that asks for None alone
Truthy_not_none(v) == v # PyNone

\* the truth value of an optional string: None and "" are false
Truthy(v) == v # PyNone /\ v # ""

\* the position in lines (counted from 1) where lines[1:] begins
LoopStart == 2

\* out_path.joinpath(name)
joinpath(name) == "bundles/" \o name

\* writing as a program would have it that leaves a file that exists alone
WriteFile_keep(dir, name, content) == dir @@ (name :> content)

\* open(name, "w") and write: the file holds what was written last.  What
\* is written is the resource itself; its JSON text is the library's work
WriteFile(dir, name, content) == (name :> content) @@ dir

\* the globals as the state holds them, the history of a new call empty
Globals ==
    [patients_uuid |-> patients_uuid,
     research_subject_uuid |-> research_subject_uuid,
     condition_uuid |-> condition_uuid,
     procedure_uuid |-> procedure_uuid,
     research_study_id |-> research_study_id,
     uuid_count |-> uuid_count,
     events |-> <<>>]

\* the globals of the state become those of g
SetGlobals(g) ==
    /\ patients_uuid' = g.patients_uuid
    /\ research_subject_uuid' = g.research_subject_uuid
    /\ condition_uuid' = g.condition_uuid
    /\ procedure_uuid' = g.procedure_uuid
    /\ research_study_id' = g.research_study_id
    /\ uuid_count' = g.uuid_count
    /\ events' = g.events

Init ==
    /\ argv \in CommandLines
    /\ lines \in { <<HeaderLine>> \o data :
                     data \in UNION { [1..n -> SampleLines] : n \in 0..MaxRows } }
    /\ pc = "start"
    /\ idx = 0
    /\ research_study_id = Unbound
    /\ patients_uuid = <<>>
    /\ research_subject_uuid = <<>>
    /\ condition_uuid = <<>>
    /\ procedure_uuid = <<>>
    /\ uuid_count = 0
    /\ files = <<>>
    /\ stdout = <<>>
    /\ calls = <<>>
    /\ rows = <<>>
    /\ returned = <<>>
    /\ events = <<>>

\* without a research study id: write the study and exit
WriteStudy ==
    /\ pc = "start"
    /\ ~Truthy(parse_args(argv).research_study_id)
    /\ LET new == uuid4(Globals)
           study_out_name == joinpath("study.json")
           study == create_research_study([new.g EXCEPT !.research_study_id = new.value])
       IN  /\ SetGlobals(study.g)
           /\ stdout' = Append(stdout, study_out_name)
           /\ files' = WriteFile(files, study_out_name, study.ret)
    /\ pc' = "exit"
    /\ UNCHANGED <<argv, lines, idx, calls, rows, returned>>

\* with a research study id: take it and enter the loop over lines[1:]
TakeStudyId ==
    /\ pc = "start"
    /\ Truthy(parse_args(argv).research_study_id)
    /\ research_study_id' = parse_args(argv).research_study_id
    /\ idx' = LoopStart
    /\ pc' = "loop"
    /\ UNCHANGED <<argv, lines, patients_uuid, research_subject_uuid, condition_uuid,
                   procedure_uuid, uuid_count, files, stdout, calls, rows, returned,
                   events>>

\* one pass of the loop body in which create_bundle returns
WriteBundle ==
    /\ pc = "loop"
    /\ idx <= Len(lines)
    /\ \E values \in {Split(lines[idx])} :
       \E result \in {create_bundle(Globals, values)} :
       LET bundle == result.ret[1]
           subject_id == result.ret[2]
           out_name == joinpath(Str(subject_id) \o ".json")
       IN  /\ result.exc = ""
           /\ SetGlobals(result.g)
           /\ rows' = Append(rows, values)
           /\ returned' = Append(returned, [exc |-> "", bundle |-> bundle,
                                            subject_id |-> subject_id])
           /\ stdout' = Append(stdout, out_name)
           /\ files' = WriteFile(files, out_name, bundle)
    /\ calls' = Append(calls, idx)
    /\ idx' = idx + 1
    /\ pc' = "loop"
    /\ UNCHANGED <<argv, lines>>

\* one pass of the loop body in which create_bundle raises: nothing catches
\* the exception, and the run ends with it
BundleRaises ==
    /\ pc = "loop"
    /\ idx <= Len(lines)
    /\ \E values \in {Split(lines[idx])} :
       \E result \in {create_bundle(Globals, values)} :
           /\ result.exc # ""
           /\ SetGlobals(result.g)
           /\ rows' = Append(rows, values)
           /\ returned' = Append(returned, [exc |-> result.exc])
    /\ calls' = Append(calls, idx)
    /\ pc' = "raised"
    /\ UNCHANGED <<argv, lines, idx, files, stdout>>

\* the loop is over
EndOfLines ==
    /\ pc = "loop"
    /\ idx > Len(lines)
    /\ pc' = "end"
    /\ UNCHANGED <<argv, lines, idx, research_study_id, patients_uuid,
                   research_subject_uuid, condition_uuid, procedure_uuid, uuid_count,
                   files, stdout, calls, rows, returned, events>>

Next == WriteStudy \/ TakeStudyId \/ WriteBundle \/ BundleRaises \/ EndOfLines

Spec == Init /\ [][Next]_vars

(***************************************************************************)
(* What the properties speak of.                                           *)
(***************************************************************************)
\* the calls of create_bundle so far, and those that returned
Calls == 1..Len(returned)

Returned == { k \in Calls : returned[k].exc = "" }

\* the row that call k was made for, and its column c (counted from 0)
RowOf(k) == rows[k]

FieldOf(k, c) == RowOf(k)[c + 1]

\* the bundle that call k returned, its entries and their kinds
BundleOf(k) == returned[k].bundle

EntriesOf(k) == { BundleOf(k).entry[e] : e \in 1..Len(BundleOf(k).entry) }

KindsOf(k) ==
    [e \in 1..Len(BundleOf(k).entry) |-> BundleOf(k).entry[e].resource.resourceType]

\* the references to a subject and to a study that the resources of call k hold
SubjectReferencesOf(k) ==
    { e.resource.subject.reference :
        e \in { x \in EntriesOf(k) : x.resource.resourceType # "Patient" } }

StudyReferencesOf(k) ==
    { e.resource.study.reference :
        e \in { x \in EntriesOf(k) : x.resource.resourceType = "ResearchSubject" } }

FullUrlsOf(k) == { e.fullUrl : e \in EntriesOf(k) }

\* the identifiers of the resources of call k
IdsOf(k) == { e.resource.id : e \in EntriesOf(k) }

\* a row has all its columns; its onset age writes a number
Complete(k) == Len(RowOf(k)) >= NumColumns

NumericAges == {Age635, Age70, Age0650}

WellFormed(k) == Complete(k) /\ FieldOf(k, 3) \in NumericAges

\* the run has ended
Ended == pc \in {"exit", "end", "raised"}

\* the names of the files that hold a study, and of those that hold a bundle
StudyFiles == { n \in DOMAIN files : files[n].resourceType = "ResearchStudy" }

BundleFiles == { n \in DOMAIN files : files[n].resourceType = "Bundle" }

(***************************************************************************)
(* The properties.                                                         *)
(***************************************************************************)
\* C1, as the specification states it: every reference that a resource of a
\* returned bundle holds (to a subject, to a study) is the fullUrl of an
\* entry of the same bundle.
C1_AllReferencesResolve ==
    \A k \in Returned :
        SubjectReferencesOf(k) \cup StudyReferencesOf(k) \subseteq FullUrlsOf(k)

\* C1, amended: in every returned bundle, every reference to a subject (of
\* the ResearchSubject, of the Condition, of the Procedure when present) is
\* the fullUrl of the Patient entry of the same bundle; the reference to the
\* study is ResearchStudy/<the research study id of the command line>, and
\* is the fullUrl of no entry of the bundle.
C1_SubjectReferencesResolve ==
    \A k \in Returned :
        /\ BundleOf(k).entry[1].resource.resourceType = "Patient"
        /\ SubjectReferencesOf(k) = { BundleOf(k).entry[1].fullUrl }
        /\ StudyReferencesOf(k) = { "ResearchStudy/" \o argv[2] }
        /\ StudyReferencesOf(k) \cap FullUrlsOf(k) = {}

\* a bundle with a Procedure has been returned
C1_Witness ==
    \E k \in Returned : Len(BundleOf(k).entry) = 4

\* C2: in every file written, the create request of each Patient, each
\* ResearchSubject and each ResearchStudy carries the guard
\* identifier=<system>|<natural key> (the secondary id in lower case, the
\* subject key as it is, the study key), and the create requests of the
\* Condition and the Procedure carry none.
C2_GuardsEverywhere ==
    /\ \A n \in StudyFiles :
          /\ "request" \in DOMAIN files[n]
          /\ "ifNoneExist" \in DOMAIN files[n].request
          /\ files[n].request.ifNoneExist =
                 "identifier=" \o STUDY_ID_SYSTEM \o "|" \o STUDY_ID_VALUE
    /\ \A k \in Returned : \A e \in EntriesOf(k) :
          CASE e.resource.resourceType = "Patient" ->
                   /\ "ifNoneExist" \in DOMAIN e.request
                   /\ e.request.ifNoneExist =
                          "identifier=" \o PATIENT_ID_SYSTEM \o "|"
                          \o Str(Lower(FieldOf(k, 36)))
            [] e.resource.resourceType = "ResearchSubject" ->
                   /\ "ifNoneExist" \in DOMAIN e.request
                   /\ e.request.ifNoneExist =
                          "identifier=" \o STUDY_PATIENT_ID_SYSTEM \o "|"
                          \o Str(FieldOf(k, 1))
            [] OTHER -> "ifNoneExist" \notin DOMAIN e.request

\* C3, as the specification states it: without the switch the run writes the
\* study alone and calls create_bundle for no row; with the switch it calls
\* create_bundle once for every line after the header, in order, and writes
\* no study.
C3_SwitchDecidesMode ==
    Ended =>
        IF argv = <<>>
        THEN /\ calls = <<>>
             /\ StudyFiles = DOMAIN files /\ Cardinality(StudyFiles) = 1
        ELSE /\ calls = [k \in 1..(Len(lines) - 1) |-> k + 1]
             /\ StudyFiles = {}

\* C3, amended: when the switch is absent or its value is empty, the run
\* writes one output, the study with a newly generated identifier, and calls
\* create_bundle for no row; when the switch has a value that is not empty,
\* the run writes no study and calls create_bundle for the lines after the
\* header, in order and once each, up to the first for which create_bundle
\* raises, with which the run ends (for all of them when none raises).
C3_ModesExclusive ==
    Ended =>
        IF argv = <<>> \/ argv[2] = ""
        THEN /\ pc = "exit"
             /\ calls = <<>>
             /\ StudyFiles = DOMAIN files
             /\ Cardinality(StudyFiles) = 1
             /\ Len(stdout) = 1
             /\ \A n \in StudyFiles : files[n].id = "uuid-1" /\ uuid_count = 1
        ELSE /\ pc \in {"end", "raised"}
             /\ StudyFiles = {}
             /\ calls = [k \in 1..Len(calls) |-> k + 1]
             /\ \A k \in Calls : returned[k].exc # "" => k = Len(calls)
             /\ pc = "end" => Len(calls) = Len(lines) - 1 /\ Returned = Calls
             /\ pc = "raised" => calls # <<>> /\ returned[Len(calls)].exc # ""

\* both modes have run to their end: a study written, or two rows converted
C3_Witness ==
    \/ pc = "exit" /\ argv # <<>>
    \/ pc = "end" /\ Len(calls) = 2

\* C4: a row that has its columns and a numeric onset age is converted; the
\* bundle is a transaction, and its entries are Patient, ResearchSubject,
\* Condition, followed by Procedure exactly when column 46 is "Yes".
C4_EntrySequence ==
    \A k \in Calls :
        /\ WellFormed(k) => k \in Returned
        /\ k \in Returned =>
              /\ BundleOf(k).type = "transaction"
              /\ KindsOf(k) =
                    IF FieldOf(k, 46) = Yes
                    THEN <<"Patient", "ResearchSubject", "Condition", "Procedure">>
                    ELSE <<"Patient", "ResearchSubject", "Condition">>

\* a row flagged "Yes" and a row flagged "yes" have both been converted
C4_Witness ==
    /\ \E k \in Returned : FieldOf(k, 46) = Yes
    /\ \E k \in Returned : FieldOf(k, 46) = <<"y", "e", "s">>

\* C5: no identifier of a resource of one row's bundle is the identifier of
\* a resource of another row's bundle, the subject keys equal or not.
C5_IdentifiersDistinct ==
    \A k1, k2 \in Returned :
        k1 # k2 =>
            /\ IdsOf(k1) \cap IdsOf(k2) = {}
            /\ BundleOf(k1).entry[1].resource.id # BundleOf(k2).entry[1].resource.id

\* two rows with the same subject key have been converted
C5_Witness ==
    \E k1, k2 \in Returned :
        k1 # k2 /\ returned[k1].subject_id = returned[k2].subject_id

\* C6: for a row with too few columns or an onset age that writes no number,
\* create_bundle raises, the run ends there, and the row gets no output;
\* every bundle returned comes from a row that is well formed, so that no
\* Condition holds an onset age that its row does not write.
C6_MalformedRowFatal ==
    /\ \A k \in Calls :
          ~WellFormed(k) =>
              /\ returned[k].exc \in {"IndexError", "ValueError"}
              /\ k = Len(calls)
              /\ pc = "raised"
    /\ Len(stdout) = Cardinality(Returned) + Cardinality(StudyFiles)
    /\ Cardinality(BundleFiles) <= Cardinality(Returned)
    /\ \A n \in BundleFiles : \E k \in Returned : files[n] = BundleOf(k)

\* the second row has an onset age that writes no number, and the run has
\* ended with the ValueError
C6_Witness ==
    /\ pc = "raised"
    /\ Len(returned) = 2
    /\ returned[2].exc = "ValueError"
    /\ Complete(2)

\* C7: the boolean stored on the Patient is TRUE exactly when column 35 is
\* "0:LIVING"; any other text gives FALSE and no error.
C7_LivingStatus ==
    \A k \in Calls :
        /\ WellFormed(k) => k \in Returned
        /\ k \in Returned =>
              BundleOf(k).entry[1].resource.deceasedBoolean
                  = (FieldOf(k, 35) = Living)

\* a row with "0:LIVING" and a row with "0:living" have both been converted
C7_Witness ==
    /\ \E k \in Returned : FieldOf(k, 35) = Living
    /\ \E k \in Returned : FieldOf(k, 35) = LivingLower

\* what the onset ages of the inputs write: 63.5, 70 and 6.5
WrittenAge(age) ==
    CASE age = Age635 -> [mant |-> 635, exp |-> 1]
      [] age = Age70 -> [mant |-> 70, exp |-> 0]
      [] age = Age0650 -> [mant |-> 65, exp |-> 1]

\* C8, as the specification states it: the Condition holds the number that
\* the onset age writes, with its fraction, and the unit "years".
C8_UnitYears ==
    \A k \in Returned :
        BundleOf(k).entry[3].resource.onsetAge
            = [value |-> WrittenAge(FieldOf(k, 3)), unit |-> "years"]

\* C8, amended: the Condition holds the number that the onset age writes,
\* with its fraction, and the unit "a", the UCUM code of the year: "63.5"
\* gives the value 63.5 and the unit "a".
C8_OnsetAge ==
    \A k \in Returned :
        BundleOf(k).entry[3].resource.onsetAge
            = [value |-> WrittenAge(FieldOf(k, 3)), unit |-> "a"]

\* a row with the onset age "63.5" has been converted
C8_Witness ==
    \E k \in Returned : FieldOf(k, 3) = Age635

\* the builders entered during the last call of create_bundle, in order
BuildersCalled ==
    LET at == { e \in 1..Len(events) : events[e].op = "call" }
        nth(i) == CHOOSE e \in at : Cardinality({ x \in at : x < e }) = i - 1
    IN  [i \in 1..Cardinality(at) |-> events[nth(i)].name]

\* C9: in every call of create_bundle the builders run in the order
\* create_patient, create_research_subject, create_condition and, for a row
\* flagged "Yes", create_procedure; and every value read from a registry was
\* written there earlier in the same call, under the same key.
C9_ReadsFollowWrites ==
    calls # <<>> =>
        /\ Len(returned) \in Returned =>
              BuildersCalled =
                  <<"create_patient", "create_research_subject", "create_condition">>
                  \o (IF FieldOf(Len(returned), 46) = Yes
                      THEN <<"create_procedure">> ELSE <<>>)
        /\ \A r \in 1..Len(events) :
              events[r].op = "read" =>
                  \E w \in 1..(r - 1) :
                      /\ events[w].op = "write"
                      /\ events[w].reg = events[r].reg
                      /\ events[w].key = events[r].key
                      /\ events[w].value = events[r].value

\* a subject key has come a second time, in a row without treatment after a
\* row with it, so that procedure_uuid still holds the earlier identifier
C9_Witness ==
    /\ Len(returned) = 2
    /\ Returned = {1, 2}
    /\ returned[1].subject_id = returned[2].subject_id
    /\ Len(BundleOf(1).entry) = 4
    /\ Len(BundleOf(2).entry) = 3
    /\ returned[2].subject_id \in DOMAIN procedure_uuid

\* the last call made for a row with the subject key of call k
LastWithKey(k) ==
    CHOOSE m \in Calls :
        /\ FieldOf(m, 1) = FieldOf(k, 1)
        /\ \A n \in Calls : FieldOf(n, 1) = FieldOf(k, 1) => n <= m

\* C10: when the loop has run to its end, the files written are those of the
\* subject keys of the rows, one for each key, and the file of a key holds
\* the bundle of the last row with that key.
C10_LastRowWins ==
    pc = "end" =>
        /\ Returned = Calls
        /\ Len(calls) = Len(lines) - 1
        /\ DOMAIN files = { "bundles/" \o Str(FieldOf(k, 1)) \o ".json" : k \in Calls }
        /\ Cardinality(DOMAIN files) = Cardinality({ FieldOf(k, 1) : k \in Calls })
        /\ \A k \in Calls :
              files["bundles/" \o Str(FieldOf(k, 1)) \o ".json"]
                  = BundleOf(LastWithKey(k))

\* the loop has run to its end over two rows with the same subject key, and
\* the bundle of the first is in no file
C10_Witness ==
    /\ pc = "end"
    /\ Len(calls) = 2
    /\ FieldOf(1, 1) = FieldOf(2, 1)
    /\ \A n \in DOMAIN files : files[n] # BundleOf(1)

=============================================================================
